---- MODULE Spec2Model ----
(***************************************************************************)
(* Loyalty-points backend (theheadmen/goDipl2): the persistent store       *)
(* (users, orders, withdrawals), the order-intake and withdrawal request   *)
(* handlers, and the reconciliation scheduler that polls the accrual       *)
(* service and credits balances.                                           *)
(*                                                                         *)
(* Every action is one handler step between two points at which another    *)
(* goroutine can observe or change the store: an autocommit statement, or  *)
(* the read phase / write-and-commit phase of the withdrawal transaction   *)
(* (PostgreSQL READ COMMITTED: a transaction's writes are invisible until  *)
(* it commits, and WithdrawalTransaction reads only in its first           *)
(* statement).  Amounts (float64 in the code) are whole points.            *)
(***************************************************************************)
EXTENDS Integers, Sequences, FiniteSets, TLC

VARIABLES
    users,        \* users table: UserID -> [Balance]
    orders,       \* orders table in insertion order; ID = position
    withdrawals,  \* withdrawals table in insertion order
    ld,           \* order-intake requests (LoadOrderHandler), per slot
    wd,           \* withdrawal requests (WithdrawHandler), per slot
    schedPC,      \* position of the scheduler goroutine
    pass,         \* processOrders: the orders slice fetched for this pass
    i,            \* processOrders: loop index (1-based)
    resp,         \* fetchOrderInfo: decoded orderResponse being applied
    user,         \* fetchOrderInfo: local copy of the owner (var user)
    ticker,       \* seconds until the ticker's next tick; TickerStopped when stopped
    cancelled,    \* ctx of MakeGorutineToCheckOrdersByTimer is done
    qr,           \* the query request (GetBalanceHandler, GetOrderHandler) in flight
    faults,       \* store failures injected so far
    credited,     \* history: total accrual written to each user's balance
    accepted,     \* history: <<user, number>> of the intakes answered 202
    termCredits,  \* history: credits applied to an order under a PROCESSED decision
    polled,       \* history: IDs of the orders requested from the accrual service in this pass
    last429,      \* history: the last answer of the pass in progress, or of the pass
                  \* a rate limit ended: its code, whether it was a 429, its
                  \* Retry-After, whether its body was JSON
    retryWait,    \* history: seconds still to wait after the last parsed 429
    lastAnswer    \* history: the handler, error and writes of the last request answered

vars == <<users, orders, withdrawals, ld, wd, qr, schedPC, pass, i, resp, user,
          ticker, cancelled, faults, credited, accepted, termCredits, polled, last429, retryWait,
          lastAnswer>>

dbVars == <<users, orders, withdrawals>>
schedVars == <<schedPC, pass, i, resp, user, ticker, polled, last429, retryWait>>

(***************************************************************************)
(* Bounds of the model.                                                    *)
(***************************************************************************)
MaxCredited == 2        \* accrual credited per user per behaviour
MaxFaults == 1          \* injected store failures per behaviour

UserIDs == {1, 2}
\* Request goroutines of each handler (net/http runs one per request).
LoadSlots == {1, 2}
WithdrawSlots == {1, 2}

\* Request bodies of POST /api/user/orders: strings as tuples of characters.
LoadNumbers == { <<"1", "8">>, <<"2", "6">>, <<"1", "7">> }
\* "order" of POST /api/user/balance/withdraw (not checksum-validated by the code).
WithdrawNumbers == { <<"1", "8">>, <<"3", "4">>, <<"4", "2">> }
\* "sum" of POST /api/user/balance/withdraw.
Sums == {1, 2}
\* "accrual" of the accrual service's answers.
Accruals == {0, 1}

(***************************************************************************)
(* Program constants.                                                      *)
(***************************************************************************)
defTimeToReturn == 3
StatusOK == 200
StatusAccepted == 202
StatusNoContent == 204
StatusPaymentRequired == 402
StatusConflict == 409
StatusUnprocessableEntity == 422
StatusTooManyRequests == 429
StatusInternalServerError == 500
TickerStopped == -1

ErrNil == "nil"
ErrInvalidOrderNumber == "invalid order number format"
ErrAlreadyHaveOrder == "we already have order"
ErrAlreadyHaveOrderForOtherUser == "already have order for other user"
ErrInsufficientFunds == "insufficient funds"
ErrStore == "store error"
ErrDuplicateKey == "duplicate key value violates unique constraint"

(***************************************************************************)
(* strconv.Atoi on the strings the model uses.                             *)
(***************************************************************************)
Digits == {"0", "1", "2", "3", "4", "5", "6", "7", "8", "9"}

DigitValue(c) ==
    CASE c = "0" -> 0 [] c = "1" -> 1 [] c = "2" -> 2 [] c = "3" -> 3
      [] c = "4" -> 4 [] c = "5" -> 5 [] c = "6" -> 6 [] c = "7" -> 7
      [] c = "8" -> 8 [] c = "9" -> 9

\* Atoi of a decimal string given as a tuple of characters, with optional sign.
RECURSIVE AtoiDigits(_, _)
AtoiDigits(s, acc) ==
    IF s = <<>> THEN acc ELSE AtoiDigits(Tail(s), 10 * acc + DigitValue(Head(s)))

Atoi(s) ==
    LET body == IF s # <<>> /\ Head(s) \in {"-", "+"} THEN Tail(s) ELSE s
        neg == s # <<>> /\ Head(s) = "-"
    IN  IF body = <<>> \/ \E k \in 1..Len(body) : body[k] \notin Digits
        THEN [err |-> TRUE, val |-> 0]
        ELSE [err |-> FALSE,
              val |-> IF neg THEN 0 - AtoiDigits(body, 0) ELSE AtoiDigits(body, 0)]

(***************************************************************************)
(* IsValidLuhn (service/logic.go).                                         *)
(***************************************************************************)
\* Defect variant: the doubled positions are counted from the left-hand end.
RECURSIVE LuhnLoop_Left(_, _, _, _)
LuhnLoop_Left(number, parity, k, sum) ==
    IF k >= Len(number) THEN sum % 10 = 0
    ELSE LET a == Atoi(<<number[k + 1]>>)
             doubled == IF 2 * a.val > 9 THEN 2 * a.val - 9 ELSE 2 * a.val
             digit == IF k % 2 = 0 THEN doubled ELSE a.val
         IN  IF a.err THEN FALSE
             ELSE LuhnLoop_Left(number, parity, k + 1, sum + digit)

RECURSIVE LuhnLoop(_, _, _, _)
LuhnLoop(number, parity, k, sum) ==
    \* k is the Go index i; number[k + 1] is number[i]
    IF k >= Len(number) THEN sum % 10 = 0
    ELSE LET a == Atoi(<<number[k + 1]>>)
             doubled == IF 2 * a.val > 9 THEN 2 * a.val - 9 ELSE 2 * a.val
             digit == IF k % 2 = parity THEN doubled ELSE a.val
         IN  IF a.err THEN FALSE
             ELSE LuhnLoop(number, parity, k + 1, sum + digit)

\* Defect variant: no checksum test.
IsValidLuhn_Any(number) == number = number

IsValidLuhn(number) == LuhnLoop(number, Len(number) % 2, 0, 0)

(***************************************************************************)
(* The store (dbconnector).  Order.Number is unique; gorm fills the        *)
(* defaults Status 'NEW' and Points 0 on Create.                           *)
(***************************************************************************)
Order(id, number, status, points, userID) ==
    [ID |-> id, Number |-> number, Status |-> status, Points |-> points, UserID |-> userID]

Withdrawal(number, points, userID, req) ==
    \* req: the request slot that created the record (history)
    [Number |-> number, Points |-> points, UserID |-> userID, req |-> req]

RowsOfNumber(tbl, number) == {k \in 1..Len(tbl) : tbl[k].Number = number}

\* GetOrderByNumber: (isOrderExist, existingOrder)
GetOrderByNumber(tbl, number) ==
    LET ks == RowsOfNumber(tbl, number)
    IN  IF ks = {} THEN [isOrderExist |-> FALSE, UserID |-> 0]
        ELSE [isOrderExist |-> TRUE, UserID |-> tbl[CHOOSE k \in ks : TRUE].UserID]

\* Defect variant: no unique index on the number.
CreateOrder_NoUnique(tbl, number, status, userID) ==
    [err |-> ErrNil,
     orders |-> Append(tbl, Order(Len(tbl) + 1, number,
                                  IF status = "" THEN "NEW" ELSE status, 0, userID))]

\* tx.Create(&order) / AddOrder: the unique index on number rejects a duplicate.
CreateOrder(tbl, number, status, userID) ==
    IF RowsOfNumber(tbl, number) # {}
    THEN [err |-> ErrDuplicateKey, orders |-> tbl]
    ELSE [err |-> ErrNil,
          orders |-> Append(tbl, Order(Len(tbl) + 1, number,
                                       IF status = "" THEN "NEW" ELSE status, 0, userID))]

\* Defect variant: the selection has no status filter.
\* Defect variant: orders that were never polled are not selected.
IsWaiting_NoNew(o) == o.Status = "REGISTERED" \/ o.Status = "PROCESSING"

IsWaiting_All(o) == TRUE

\* GetWaitingOrders: the rows the reconciler polls, in table order.
IsWaiting(o) == o.Status = "REGISTERED" \/ o.Status = "PROCESSING" \/ o.Status = "NEW"

GetWaitingOrders(tbl) == SelectSeq(tbl, IsWaiting)

\* The fields of a fetched row that fetchOrderInfo reads (it overwrites Status
\* and Points before it saves the row).
RowKey(o) == [ID |-> o.ID, Number |-> o.Number, UserID |-> o.UserID]
RowKeys(rows) == [k \in 1..Len(rows) |-> RowKey(rows[k])]

\* Defect variant: the save leaves the points column as it was.
UpdateOrder_KeepPoints(tbl, ord) == [tbl EXCEPT ![ord.ID].Status = ord.Status]

\* UpdateOrder: gorm Save of the whole row by primary key.
UpdateOrder(tbl, ord) == [tbl EXCEPT ![ord.ID] = ord]

\* GetUserWithdrawals summed: the points of a user's withdrawal records.
RECURSIVE SumPoints(_, _)
SumPoints(tbl, userID) ==
    IF tbl = <<>> THEN 0
    ELSE (IF Head(tbl).UserID = userID THEN Head(tbl).Points ELSE 0)
         + SumPoints(Tail(tbl), userID)

\* A store call may fail while the fault budget lasts.
CanFail == faults < MaxFaults
Fault(f) == faults' = IF f THEN faults + 1 ELSE faults
FaultChoices == IF CanFail THEN {FALSE, TRUE} ELSE {FALSE}

Alive == schedPC # "panic"

\* A request goroutine is between its first and its last store call.
InFlight(req) == req.pc # "idle"
\* A new request runs in the lowest slot that is not in flight.
FreeSlot(reqs, k) ==
    /\ ~InFlight(reqs[k])
    /\ \A j \in DOMAIN reqs : j < k => InFlight(reqs[j])

(***************************************************************************)
(* Order intake: LoadOrderHandler -> LoadOrderLogic.                       *)
(***************************************************************************)
NoLoad == [pc |-> "idle", UserID |-> 0, Number |-> <<>>]
NoQuery == [pc |-> "idle", UserID |-> 0, Balance |-> 0]
NoAnswer == [handler |-> "", err |-> "", code |-> 0, wrote |-> {}]

\* Defect variant: an order of another user is answered like one's own.
LoadOrderStatus_NoConflict(err) ==
    IF err = ErrNil THEN StatusAccepted
    ELSE IF err = ErrInvalidOrderNumber THEN StatusUnprocessableEntity
    ELSE IF err = ErrAlreadyHaveOrder \/ err = ErrAlreadyHaveOrderForOtherUser THEN StatusOK
    ELSE StatusInternalServerError

\* LoadOrderHandler's mapping of LoadOrderLogic's error to the HTTP status.
LoadOrderStatus(err) ==
    IF err = ErrNil THEN StatusAccepted
    ELSE IF err = ErrInvalidOrderNumber THEN StatusUnprocessableEntity
    ELSE IF err = ErrAlreadyHaveOrder THEN StatusOK
    ELSE IF err = ErrAlreadyHaveOrderForOtherUser THEN StatusConflict
    ELSE StatusInternalServerError

\* The handler's answer: the error of LoadOrderLogic and the status written.
LoadAnswer(err) ==
    [handler |-> "LoadOrderHandler", err |-> err, code |-> LoadOrderStatus(err),
     wrote |-> {}]

\* Defect variant: no lookup of the number before AddOrder.
LoadOrderCheck_NoLookup(tbl, userID, number, f) ==
    IF ~IsValidLuhn(number) THEN ErrInvalidOrderNumber
    ELSE IF f THEN ErrStore
    ELSE ""

\* The verdict of LoadOrderLogic before AddOrder: "" when the order is to be added.
LoadOrderCheck(tbl, userID, number, f) ==
    IF ~IsValidLuhn(number) THEN ErrInvalidOrderNumber
    ELSE IF f THEN ErrStore
    ELSE LET got == GetOrderByNumber(tbl, number)
         IN  IF got.isOrderExist
             THEN IF got.UserID = userID THEN ErrAlreadyHaveOrder
                  ELSE ErrAlreadyHaveOrderForOtherUser
             ELSE ""

\* The request arrives: AuthenticateUser finds the session's user, the body is read.
\* us, ns: the users and the bodies the clients send.
LoadOrderHandler_Authenticate(r, us, ns) ==
    /\ Alive
    /\ FreeSlot(ld, r)
    /\ \E u \in us, n \in ns :
         ld' = [ld EXCEPT ![r] = [pc |-> "check", UserID |-> u, Number |-> n]]
    /\ UNCHANGED <<dbVars, wd, schedVars, faults, credited, termCredits, accepted, lastAnswer>>
    /\ UNCHANGED <<cancelled, qr>>

\* LoadOrderLogic: checksum test, then GetOrderByNumber.
LoadOrderLogic_Check(r) ==
    /\ Alive
    /\ ld[r].pc = "check"
    /\ \E f \in FaultChoices :
         LET verdict == LoadOrderCheck(orders, ld[r].UserID, ld[r].Number, f)
         IN  /\ f => verdict = ErrStore
             /\ Fault(f)
             /\ ld' = [ld EXCEPT ![r] =
                   IF verdict = "" THEN [@ EXCEPT !.pc = "add"] ELSE NoLoad]
             /\ lastAnswer' = IF verdict = "" THEN lastAnswer ELSE LoadAnswer(verdict)
    /\ UNCHANGED <<dbVars, wd, schedVars, credited, termCredits, accepted>>
    /\ UNCHANGED <<cancelled, qr>>

\* LoadOrderLogic: AddOrder, and the handler's answer.
LoadOrderLogic_AddOrder(r) ==
    /\ Alive
    /\ ld[r].pc = "add"
    /\ \E f \in FaultChoices :
         LET res == CreateOrder(orders, ld[r].Number, "", ld[r].UserID)
             err == IF f THEN ErrStore ELSE res.err
         IN  /\ Fault(f)
             /\ orders' = IF f THEN orders ELSE res.orders
             /\ ld' = [ld EXCEPT ![r] = NoLoad]
             /\ lastAnswer' = LoadAnswer(err)
             /\ accepted' = IF err = ErrNil
                            THEN accepted \cup {<<ld[r].UserID, ld[r].Number>>}
                            ELSE accepted
    /\ UNCHANGED <<users, withdrawals, wd, schedVars, credited, termCredits>>
    /\ UNCHANGED <<cancelled, qr>>

(***************************************************************************)
(* Withdrawal: WithdrawHandler -> WithdrawLogic -> WithdrawalTransaction.  *)
(***************************************************************************)
\* Auth: the balance of the row AuthenticateUser read; Balance: the debited
\* balance of the row the transaction read.
NoWithdraw ==
    [pc |-> "idle", UserID |-> 0, Order |-> <<>>, Sum |-> 0, Balance |-> 0, Auth |-> 0]
\* Defect variant: every error of the transaction is a generic failure.
WithdrawStatus_Generic(err) ==
    IF err = ErrNil THEN StatusOK ELSE StatusInternalServerError

\* WithdrawLogic / WithdrawHandler: the HTTP status for the transaction's error.
WithdrawStatus(err) ==
    IF err = ErrNil THEN StatusOK
    ELSE IF err = ErrInsufficientFunds THEN StatusPaymentRequired
    ELSE StatusInternalServerError

\* The handler's answer: the error, the status written, and (history) the
\* writes the transaction persisted.
WithdrawAnswer(err, wrote) ==
    [handler |-> "WithdrawHandler", err |-> err, code |-> WithdrawStatus(err),
     wrote |-> wrote]

\* Defect variant: the funds check never rejects.
InsufficientFunds_Never(balance, requestedSum) == FALSE

\* The funds check of WithdrawalTransaction on the balance it read.
InsufficientFunds(balance, requestedSum) == balance < requestedSum

\* Defect variant: the debit is not applied to the row that is saved.
DebitedBalance_Unchanged(balance, requestedSum) == balance

\* user.Balance -= requestedSum on the row the transaction read.
DebitedBalance(balance, requestedSum) == balance - requestedSum

\* The request arrives: AuthenticateUser finds the session's user, the body is decoded.
\* us: the users whose clients send the request; ss: the sums they ask for.
WithdrawHandler_Authenticate(w, us, ss) ==
    /\ Alive
    /\ FreeSlot(wd, w)
    /\ \E u \in us, n \in WithdrawNumbers, s \in ss :
         wd' = [wd EXCEPT ![w] =
                  [NoWithdraw EXCEPT !.pc = "tx", !.UserID = u, !.Order = n, !.Sum = s,
                                     !.Auth = users[u].Balance]]
    /\ UNCHANGED <<dbVars, ld, schedVars, faults, credited, termCredits, accepted, lastAnswer>>
    /\ UNCHANGED <<cancelled, qr>>

\* Defect variant: the funds check uses the balance AuthenticateUser read.
WithdrawalTransaction_Read_Stale(w) ==
    /\ Alive
    /\ wd[w].pc = "tx"
    /\ \E f \in FaultChoices :
         LET balance == wd[w].Auth
         IN  /\ Fault(f)
             /\ wd' = [wd EXCEPT ![w] =
                   IF f \/ InsufficientFunds(balance, wd[w].Sum) THEN NoWithdraw
                   ELSE [@ EXCEPT !.pc = "write",
                                   !.Balance = DebitedBalance(balance, wd[w].Sum)]]
             /\ lastAnswer' =
                   IF f THEN WithdrawAnswer(ErrStore, {})
                   ELSE IF InsufficientFunds(balance, wd[w].Sum)
                   THEN WithdrawAnswer(ErrInsufficientFunds, {})
                   ELSE lastAnswer
    /\ UNCHANGED <<dbVars, ld, schedVars, credited, termCredits, accepted>>
    /\ UNCHANGED <<cancelled, qr>>

\* tx.Begin, the read of the user row, and the funds check.  With too little
\* money the (empty) transaction is committed and ErrInsufficientFunds returned.
WithdrawalTransaction_Read(w) ==
    /\ Alive
    /\ wd[w].pc = "tx"
    /\ \E f \in FaultChoices :
         LET balance == users[wd[w].UserID].Balance
         IN  /\ Fault(f)
             /\ wd' = [wd EXCEPT ![w] =
                   IF f \/ InsufficientFunds(balance, wd[w].Sum) THEN NoWithdraw
                   ELSE [@ EXCEPT !.pc = "write",
                                   !.Balance = DebitedBalance(balance, wd[w].Sum)]]
             /\ lastAnswer' =
                   IF f THEN WithdrawAnswer(ErrStore, {})
                   ELSE IF InsufficientFunds(balance, wd[w].Sum)
                   THEN WithdrawAnswer(ErrInsufficientFunds, {})
                   ELSE lastAnswer
    /\ UNCHANGED <<dbVars, ld, schedVars, credited, termCredits, accepted>>
    /\ UNCHANGED <<cancelled, qr>>

\* The database as WithdrawalTransaction sees it, and the outcome it leaves.
Outcome(tbls, err, wrote) ==
    [orders |-> tbls.orders, withdrawals |-> tbls.withdrawals, users |-> tbls.users,
     err |-> err, wrote |-> wrote]

\* Defect variant: the failed transaction's earlier writes stay in the store.
Rollback_Keep(db, tx, err) ==
    [orders |-> tx.orders, withdrawals |-> tx.withdrawals, users |-> tx.users,
     err |-> err, wrote |-> {}]

\* tx.Rollback() after a failed statement: the transaction's writes are dropped.
Rollback(db, tx, err) == Outcome(db, err, {})

\* tx.Commit(): the writes become visible; its own error is not looked at, so a
\* failed commit (persisted = FALSE) still returns nil.
Commit(db, tx, persisted) ==
    IF persisted THEN Outcome(tx, ErrNil, tx.wrote) ELSE Outcome(db, ErrNil, {})

WithdrawFaults == {"none", "order", "withdrawal", "user", "commit"}

\* The three writes of WithdrawalTransaction and its commit; fault names the
\* statement that fails for a reason of the store.
WithdrawalTransaction(db, req, slot, fault) ==
    LET created == CreateOrder(db.orders, req.Order, "PROCESSED", req.UserID)
        tx1 == [orders |-> created.orders, withdrawals |-> db.withdrawals,
                users |-> db.users, wrote |-> {"order"}]
        tx2 == [tx1 EXCEPT !.withdrawals =
                              Append(@, Withdrawal(req.Order, req.Sum, req.UserID, slot)),
                           !.wrote = @ \cup {"withdrawal"}]
        tx3 == [tx2 EXCEPT !.users[req.UserID].Balance = req.Balance,
                           !.wrote = @ \cup {"user"}]
    IN  IF fault = "order" THEN Rollback(db, db, ErrStore)
        ELSE IF created.err # ErrNil THEN Rollback(db, db, created.err)
        ELSE IF fault = "withdrawal" THEN Rollback(db, tx1, ErrStore)
        ELSE IF fault = "user" THEN Rollback(db, tx2, ErrStore)
        ELSE Commit(db, tx3, fault # "commit")

\* Create order, create withdrawal, save user, commit.
WithdrawalTransaction_Write(w) ==
    /\ Alive
    /\ wd[w].pc = "write"
    /\ \E fault \in WithdrawFaults :
         LET db == [orders |-> orders, withdrawals |-> withdrawals, users |-> users]
             out == WithdrawalTransaction(db, wd[w], w, fault)
         IN  /\ fault # "none" => CanFail
             /\ Fault(fault # "none")
             /\ orders' = out.orders
             /\ withdrawals' = out.withdrawals
             /\ users' = out.users
             /\ wd' = [wd EXCEPT ![w] = NoWithdraw]
             /\ lastAnswer' = WithdrawAnswer(out.err, out.wrote)
    /\ UNCHANGED <<ld, schedVars, credited, termCredits, accepted>>
    /\ UNCHANGED <<cancelled, qr>>

(***************************************************************************)
(* The accrual service's answers (GET {baseURL}/api/orders/{number}).      *)
(***************************************************************************)
RetryAfterHeaders ==
    { <<>>, <<"x">>, <<"0">>, <<"-", "1">>, <<"1">>, <<"3">>, <<"4">> }
ResponseStatuses == {"REGISTERED", "PROCESSING", "INVALID", "PROCESSED", ""}

Response(code, retryAfter, json, status, accrual) ==
    [code |-> code, retryAfter |-> retryAfter, json |-> json,
     Status |-> status, Accrual |-> accrual]

\* code 0: the request failed (no response).
Responses ==
    {Response(c, <<>>, FALSE, "", 0) : c \in {0, StatusNoContent, StatusInternalServerError}}
    \cup {Response(StatusTooManyRequests, h, FALSE, "", 0) : h \in RetryAfterHeaders}
    \cup {Response(StatusOK, <<>>, FALSE, "", 0)}
    \cup {Response(StatusOK, <<>>, TRUE, s, a) : s \in ResponseStatuses, a \in Accruals}

NoResp == [Status |-> "", Accrual |-> 0]
NoLast == [is429 |-> FALSE, retryAfter |-> <<>>, code |-> 0, json |-> FALSE]
MaxRows == Cardinality(LoadNumbers \cup WithdrawNumbers)

\* Defect variant: the error of strconv.Atoi is not looked at.
fetchOrderInfo_Response_UncheckedAtoi(r) ==
    IF r.code = 0 THEN [timeToReturn |-> defTimeToReturn, apply |-> FALSE]
    ELSE IF r.code = StatusTooManyRequests
    THEN [timeToReturn |-> Atoi(r.retryAfter).val, apply |-> FALSE]
    ELSE IF r.code = StatusInternalServerError \/ r.code = StatusNoContent
    THEN [timeToReturn |-> defTimeToReturn, apply |-> FALSE]
    ELSE IF ~r.json THEN [timeToReturn |-> defTimeToReturn, apply |-> FALSE]
    ELSE [timeToReturn |-> defTimeToReturn, apply |-> TRUE]

\* Defect variant: a 204 answer is decoded and applied like a decision.
fetchOrderInfo_Response_Apply204(r) ==
    IF r.code = 0 THEN [timeToReturn |-> defTimeToReturn, apply |-> FALSE]
    ELSE IF r.code = StatusTooManyRequests
    THEN LET retryAfterSeconds == Atoi(r.retryAfter)
         IN  IF retryAfterSeconds.err
             THEN [timeToReturn |-> defTimeToReturn, apply |-> FALSE]
             ELSE [timeToReturn |-> retryAfterSeconds.val, apply |-> FALSE]
    ELSE IF r.code = StatusInternalServerError
    THEN [timeToReturn |-> defTimeToReturn, apply |-> FALSE]
    ELSE [timeToReturn |-> defTimeToReturn, apply |-> TRUE]

\* fetchOrderInfo up to the decoded body: the seconds it returns and whether it
\* goes on to apply the decision.
fetchOrderInfo_Response(r) ==
    IF r.code = 0 THEN [timeToReturn |-> defTimeToReturn, apply |-> FALSE]
    ELSE IF r.code = StatusTooManyRequests
    THEN LET retryAfterSeconds == Atoi(r.retryAfter)
         IN  IF retryAfterSeconds.err
             THEN [timeToReturn |-> defTimeToReturn, apply |-> FALSE]
             ELSE [timeToReturn |-> retryAfterSeconds.val, apply |-> FALSE]
    ELSE IF r.code = StatusInternalServerError \/ r.code = StatusNoContent
    THEN [timeToReturn |-> defTimeToReturn, apply |-> FALSE]
    ELSE IF ~r.json THEN [timeToReturn |-> defTimeToReturn, apply |-> FALSE]
    ELSE [timeToReturn |-> defTimeToReturn, apply |-> TRUE]

\* Defect variant: the pass ends after its first poll.
AbortsPass_Always(timeToResetTimer) == timeToResetTimer = timeToResetTimer

\* processOrders: a returned time other than the default ends the pass.
AbortsPass(timeToResetTimer) == timeToResetTimer # defTimeToReturn

\* ticker.Reset(d): panics for d <= 0, which ends the process.
TickerReset(seconds) ==
    IF seconds <= 0
    THEN /\ schedPC' = "panic"
         /\ ticker' = TickerStopped
    ELSE /\ schedPC' = "wait"
         /\ ticker' = seconds

Saturate(n) == IF n < 2 THEN n + 1 ELSE n

(***************************************************************************)
(* The scheduler: MakeGorutineToCheckOrdersByTimer -> processOrders ->     *)
(* fetchOrderInfo.                                                         *)
(***************************************************************************)
\* Time passes until the armed ticker ticks.  (While the ticker is stopped no
\* goroutine waits for time, and the passing of time is not modelled: waits
\* are then measured in the behaviours in which the least time has passed.)
Elapse ==
    /\ Alive
    /\ ticker > 0
    /\ ticker' = 0
    /\ retryWait' = IF retryWait > ticker THEN retryWait - ticker ELSE 0
    /\ UNCHANGED <<dbVars, ld, wd, schedPC, pass, i, resp, user, faults,
                   credited, accepted, termCredits, polled, last429, lastAnswer>>
    /\ UNCHANGED <<cancelled, qr>>

\* Defect variant: the error of GetWaitingOrders is not looked at.
MakeGorutineToCheckOrdersByTimer_Tick_IgnoreError ==
    /\ schedPC = "wait"
    /\ ticker = 0
    /\ \E f \in FaultChoices :
         /\ Fault(f)
         /\ schedPC' = "loop"
         /\ ticker' = TickerStopped
         /\ pass' = RowKeys(GetWaitingOrders(orders))
         /\ i' = 1
         /\ polled' = {}
         /\ last429' = NoLast
    /\ UNCHANGED <<dbVars, ld, wd, resp, user, credited, accepted, termCredits, retryWait,
                   lastAnswer>>
    /\ UNCHANGED <<cancelled, qr>>

\* Defect variant: the ticker is left running while the pass runs.
MakeGorutineToCheckOrdersByTimer_Tick_NoStop ==
    /\ schedPC = "wait"
    /\ ticker = 0
    /\ \E f \in FaultChoices :
         /\ Fault(f)
         /\ IF f
            THEN /\ TickerReset(defTimeToReturn)
                 /\ UNCHANGED <<pass, i, polled, last429>>
            ELSE /\ schedPC' = "loop"
                 /\ ticker' = defTimeToReturn
                 /\ pass' = RowKeys(GetWaitingOrders(orders))
                 /\ i' = 1
                 /\ polled' = {}
                 /\ last429' = NoLast
    /\ UNCHANGED <<dbVars, ld, wd, resp, user, credited, accepted, termCredits, retryWait,
                   lastAnswer>>
    /\ UNCHANGED <<cancelled, qr>>

\* case <-ticker.C: the ticker is stopped and processOrders fetches the waiting orders.
MakeGorutineToCheckOrdersByTimer_Tick ==
    /\ schedPC = "wait"
    /\ ticker = 0
    /\ \E f \in FaultChoices :
         /\ Fault(f)
         /\ IF f
            THEN /\ TickerReset(defTimeToReturn)
                 /\ UNCHANGED <<pass, i, polled, last429>>
            ELSE /\ schedPC' = "loop"
                 /\ ticker' = TickerStopped
                 /\ pass' = RowKeys(GetWaitingOrders(orders))
                 /\ i' = 1
                 /\ polled' = {}
                 /\ last429' = NoLast
    /\ UNCHANGED <<dbVars, ld, wd, resp, user, credited, accepted, termCredits, retryWait,
                   lastAnswer>>
    /\ UNCHANGED <<cancelled, qr>>

\* for i < len(orders): fetchOrderInfo's request, its answer, and UpdateOrder.
\* rs: the answers the accrual service may give.
processOrders_Step(rs) ==
    /\ schedPC = "loop"
    /\ i <= Len(pass)
    /\ \E r \in rs, f \in FaultChoices :
         LET ord == Order(pass[i].ID, pass[i].Number, r.Status, r.Accrual, pass[i].UserID)
             got == fetchOrderInfo_Response(r)
         IN  /\ r.Accrual > 0 => credited[ord.UserID] + r.Accrual <= MaxCredited
             /\ f => got.apply
             /\ Fault(f)
             /\ polled' = IF AbortsPass(got.timeToReturn) THEN {} ELSE polled \cup {ord.ID}
             /\ last429' = [is429 |-> r.code = StatusTooManyRequests,
                             retryAfter |-> r.retryAfter,
                             code |-> r.code, json |-> r.json]
             /\ retryWait' = IF r.code = StatusTooManyRequests /\ ~Atoi(r.retryAfter).err
                                  /\ Atoi(r.retryAfter).val > 0
                             THEN Atoi(r.retryAfter).val ELSE retryWait
             /\ orders' = IF got.apply /\ ~f THEN UpdateOrder(orders, ord) ELSE orders
             /\ IF AbortsPass(got.timeToReturn)
                THEN /\ TickerReset(got.timeToReturn)
                     /\ pass' = <<>>
                     /\ i' = 0
                     /\ resp' = resp
                ELSE IF got.apply /\ ~f /\ r.Accrual > 0
                THEN /\ schedPC' = "getuser"
                     /\ resp' = [Status |-> r.Status, Accrual |-> r.Accrual]
                     /\ UNCHANGED <<pass, i, ticker>>
                ELSE /\ i' = i + 1
                     /\ UNCHANGED <<schedPC, pass, resp, ticker>>
    /\ UNCHANGED <<users, withdrawals, ld, wd, user, credited, accepted, termCredits,
                   lastAnswer>>
    /\ UNCHANGED <<cancelled, qr>>

\* fetchOrderInfo: GetUserByUserID for the owner of the order.
fetchOrderInfo_GetUser ==
    /\ schedPC = "getuser"
    /\ \E f \in FaultChoices :
         /\ Fault(f)
         /\ IF f
            THEN /\ schedPC' = "loop"
                 /\ i' = i + 1
                 /\ resp' = NoResp
                 /\ user' = user
            ELSE /\ schedPC' = "updateuser"
                 /\ user' = users[pass[i].UserID]
                 /\ UNCHANGED <<i, resp>>
    /\ UNCHANGED <<dbVars, ld, wd, pass, ticker, credited, accepted, termCredits,
                   polled, last429, retryWait, lastAnswer>>
    /\ UNCHANGED <<cancelled, qr>>

\* Defect variant: the accrual replaces the balance.
CreditedBalance_Overwrite(balance, accrual) == accrual

\* Defect variant: the accrual is added a second time.
CreditedBalance_Twice(balance, accrual) == balance + accrual + accrual

\* user.Balance += Accrual on the local copy.
CreditedBalance(balance, accrual) == balance + accrual

\* fetchOrderInfo: the balance is raised on the copy and UpdateUser saves it.
fetchOrderInfo_UpdateUser ==
    /\ schedPC = "updateuser"
    /\ \E f \in FaultChoices :
         LET id == pass[i].UserID
         IN  /\ Fault(f)
             /\ users' = IF f THEN users
                         ELSE [users EXCEPT ![id].Balance =
                                  CreditedBalance(user.Balance, resp.Accrual)]
             /\ credited' = IF f THEN credited
                            ELSE [credited EXCEPT ![id] = @ + resp.Accrual]
             /\ termCredits' = IF f \/ resp.Status # "PROCESSED" THEN termCredits
                               ELSE [termCredits EXCEPT ![pass[i].ID] = Saturate(@)]
    /\ schedPC' = "loop"
    /\ i' = i + 1
    /\ resp' = NoResp
    /\ user' = [Balance |-> 0]
    /\ UNCHANGED <<orders, withdrawals, ld, wd, pass, ticker, accepted,
                   polled, last429, retryWait, lastAnswer>>
    /\ UNCHANGED <<cancelled, qr>>

\* processOrders returns the default interval and the ticker is reset to it.
processOrders_Return ==
    /\ schedPC = "loop"
    /\ i > Len(pass)
    /\ TickerReset(defTimeToReturn)
    /\ pass' = <<>>
    /\ i' = 0
    /\ polled' = {}
    /\ last429' = NoLast
    /\ UNCHANGED <<dbVars, ld, wd, resp, user, faults, credited, accepted, termCredits,
                   retryWait, lastAnswer>>
    /\ UNCHANGED <<cancelled, qr>>

(***************************************************************************)
(* The system.                                                             *)
(***************************************************************************)
Init ==
    /\ users = [u \in UserIDs |-> [Balance |-> 0]]
    /\ orders = <<>>
    /\ withdrawals = <<>>
    /\ ld = [r \in LoadSlots |-> NoLoad]
    /\ wd = [w \in WithdrawSlots |-> NoWithdraw]
    /\ schedPC = "wait"
    /\ pass = <<>>
    /\ i = 0
    /\ resp = NoResp
    /\ user = [Balance |-> 0]
    /\ ticker = defTimeToReturn
    /\ cancelled = FALSE
    /\ qr = NoQuery
    /\ faults = 0
    /\ credited = [u \in UserIDs |-> 0]
    /\ accepted = {}
    /\ termCredits = [k \in 1..MaxRows |-> 0]
    /\ polled = {}
    /\ last429 = NoLast
    /\ retryWait = 0
    /\ lastAnswer = NoAnswer

RequestsInFlight ==
    Cardinality({r \in LoadSlots : InFlight(ld[r])})
    + Cardinality({w \in WithdrawSlots : InFlight(wd[w])})
    + (IF InFlight(qr) THEN 1 ELSE 0)

\* Clients wait for the answer to one request before they send the next.
NoRequest == RequestsInFlight = 0

\* fetchOrderInfo is between its update of the order and its save of the owner.
Crediting == schedPC \in {"getuser", "updateuser"}

\* Order numbers of the scenarios with one order under reconciliation: one
\* that passes the checksum test and one that fails it.
OneCard == { <<"1", "8">>, <<"1", "7">> }

\* The scheduler goroutine beside the request handlers: either user's intake
\* of the numbers of OneCard, and withdrawals of user 1.
Next ==
    \/ NoRequest /\ \E r \in LoadSlots : LoadOrderHandler_Authenticate(r, UserIDs, OneCard)
    \/ \E r \in LoadSlots : LoadOrderLogic_Check(r)
    \/ \E r \in LoadSlots : LoadOrderLogic_AddOrder(r)
    \/ NoRequest /\ \E w \in WithdrawSlots : WithdrawHandler_Authenticate(w, {1}, Sums)
    \/ \E w \in WithdrawSlots : WithdrawalTransaction_Read(w)
    \/ \E w \in WithdrawSlots : WithdrawalTransaction_Write(w)
    \/ Elapse
    \/ MakeGorutineToCheckOrdersByTimer_Tick
    \/ processOrders_Step(Responses)
    \/ fetchOrderInfo_GetUser
    \/ fetchOrderInfo_UpdateUser
    \/ processOrders_Return

Spec == Init /\ [][Next]_vars

\* The same requests and passes with no two operations overlapping: a request
\* is answered, and fetchOrderInfo has returned, before another goroutine
\* takes a step.
NextSeq ==
    \/ /\ NoRequest /\ ~Crediting
       /\ \E r \in LoadSlots : LoadOrderHandler_Authenticate(r, UserIDs, OneCard)
    \/ \E r \in LoadSlots : LoadOrderLogic_Check(r)
    \/ \E r \in LoadSlots : LoadOrderLogic_AddOrder(r)
    \/ /\ NoRequest /\ ~Crediting
       /\ \E w \in WithdrawSlots : WithdrawHandler_Authenticate(w, {1}, Sums)
    \/ \E w \in WithdrawSlots : WithdrawalTransaction_Read(w)
    \/ \E w \in WithdrawSlots : WithdrawalTransaction_Write(w)
    \/ NoRequest /\ Elapse
    \/ NoRequest /\ MakeGorutineToCheckOrdersByTimer_Tick
    \/ NoRequest /\ processOrders_Step(Responses)
    \/ NoRequest /\ fetchOrderInfo_GetUser
    \/ NoRequest /\ fetchOrderInfo_UpdateUser
    \/ NoRequest /\ processOrders_Return

SpecSeq == Init /\ [][NextSeq]_vars

\* Reconciliation passes over several waiting orders: user 1's intake of
\* every number, and no withdrawals.
NextPass ==
    \/ NoRequest /\ \E r \in LoadSlots : LoadOrderHandler_Authenticate(r, {1}, LoadNumbers)
    \/ \E r \in LoadSlots : LoadOrderLogic_Check(r)
    \/ \E r \in LoadSlots : LoadOrderLogic_AddOrder(r)
    \/ Elapse
    \/ MakeGorutineToCheckOrdersByTimer_Tick
    \/ processOrders_Step(Responses)
    \/ fetchOrderInfo_GetUser
    \/ fetchOrderInfo_UpdateUser
    \/ processOrders_Return

SpecPass == Init /\ [][NextPass]_vars

(***************************************************************************)
(* Properties.                                                             *)
(***************************************************************************)
Withdrawn(u) == SumPoints(withdrawals, u)
Ledger(u) == users[u].Balance = credited[u] - Withdrawn(u)

\* The withdrawal request in slot w is at its funds check with a sum above the
\* stored balance, and takes its step.
RejectedStep(w) ==
    /\ wd[w].pc = "tx"
    /\ wd'[w] # wd[w]
    /\ wd[w].Sum > users[wd[w].UserID].Balance

\* C1: when credits and withdrawals are applied one after another, after each
\* operation every user's stored balance is the sum of the credits minus the
\* sum of the withdrawals that took effect, and a withdrawal request above
\* the current balance leaves every balance unchanged and creates no
\* withdrawal record.
C1_LedgerOfSequences ==
    [][ /\ \A u \in UserIDs : Ledger(u)'
        /\ \A w \in WithdrawSlots :
             RejectedStep(w) => users' = users /\ withdrawals' = withdrawals ]_vars

\* C1 witness: two credits, an accepted withdrawal and then a rejected one.
C1_Witness ==
    /\ credited[1] = 2
    /\ Withdrawn(1) = 1
    /\ users[1].Balance = 1
    /\ lastAnswer = WithdrawAnswer(ErrInsufficientFunds, {})

\* No credit and no withdrawal is between its read and its write of a balance.
Quiescent ==
    /\ schedPC \notin {"getuser", "updateuser"}
    /\ \A w \in WithdrawSlots : wd[w].pc # "write"

\* C2: when a reconciliation credit and a withdrawal of the same user run
\* concurrently, no update is lost: once both have finished the balance is
\* the credits minus the accepted withdrawals.
C2_NoLostUpdate == Quiescent => \A u \in UserIDs : Ledger(u)

\* The scheduler is at the save of a credited balance.
CreditStep == schedPC = "updateuser" /\ credited' # credited

ReturnStep(w) == wd[w].pc = "write" /\ wd'[w].pc = "idle"

\* The three writes of the request in slot w, all persisted.
AllPersisted(w) ==
    /\ orders' = Append(orders, Order(Len(orders) + 1, wd[w].Order, "PROCESSED", 0,
                                      wd[w].UserID))
    /\ withdrawals' = Append(withdrawals,
                             Withdrawal(wd[w].Order, wd[w].Sum, wd[w].UserID, w))
    /\ users' = [users EXCEPT ![wd[w].UserID].Balance = wd[w].Balance]

\* C4: when WithdrawalTransaction returns, either the PROCESSED order, the
\* withdrawal record and the decremented balance are all persisted, or the
\* store is as it was; it is as it was when the order's number already exists.
C4_AllOrNothing ==
    [][ \A w \in WithdrawSlots :
          ReturnStep(w) =>
            /\ AllPersisted(w) \/ dbVars' = dbVars
            /\ RowsOfNumber(orders, wd[w].Order) # {} => dbVars' = dbVars ]_vars

\* C4 witness: after an accepted withdrawal, one whose number already exists
\* was rolled back.
C4_Witness ==
    /\ lastAnswer = WithdrawAnswer(ErrDuplicateKey, {})
    /\ Len(withdrawals) = 1
    /\ users[1].Balance > 0

\* C5: a withdrawal whose sum exceeds the balance is answered with the
\* insufficient-funds outcome, HTTP 402, and neither its arrival nor its
\* rejection changes users, orders or withdrawals (the store working).
C5_InsufficientFunds ==
    [][ \A w \in WithdrawSlots :
          /\ (wd[w].pc = "idle" /\ wd'[w].pc = "tx") => dbVars' = dbVars
          /\ (RejectedStep(w) /\ faults' = faults) =>
                /\ lastAnswer' = WithdrawAnswer(ErrInsufficientFunds, {})
                /\ lastAnswer'.code = StatusPaymentRequired
                /\ wd'[w].pc = "idle"
                /\ dbVars' = dbVars ]_vars

\* C5 witness: a request above a positive balance was rejected.
C5_Witness ==
    /\ lastAnswer = WithdrawAnswer(ErrInsufficientFunds, {})
    /\ users[1].Balance = 1
    /\ withdrawals = <<>>

\* C6: in every reachable state the sum of a user's withdrawal records does
\* not exceed the accrual ever credited to that user.
C6_WithdrawnWithinCredited == \A u \in UserIDs : Withdrawn(u) <= credited[u]

Terminal(o) == o.Status = "PROCESSED" \/ o.Status = "INVALID"

\* C7: once an order is stored as PROCESSED or INVALID, no accrual request
\* is issued for it and its stored status and points never change.
C7_TerminalStability ==
    [][ \A k \in 1..Len(orders) :
          Terminal(orders[k]) =>
            /\ orders'[k] = orders[k]
            /\ k \in polled' => k \in polled ]_vars

\* C7 witness: a pass polls a waiting order while another order is terminal,
\* its decision stored in an earlier pass.
C7_Witness ==
    \E k \in 1..Len(orders) :
        /\ Terminal(orders[k])
        /\ schedPC = "loop"
        /\ polled # {}
        /\ \A j \in 1..Len(pass) : pass[j].ID # k

\* The pass's last answer is a 429 whose Retry-After is a whole number of
\* seconds, at least 1.
RateLimited ==
    /\ last429.is429
    /\ ~Atoi(last429.retryAfter).err
    /\ Atoi(last429.retryAfter).val >= 1

\* C8: a rate-limit signal on the k-th order of a pass aborts the pass: no
\* later order of the pass receives an accrual request or is written, and no
\* balance is credited.
C8_AbortOnRateLimit ==
    [][ RateLimited => /\ polled' \subseteq polled
                       /\ orders' = orders \/ Len(orders') > Len(orders)
                       /\ credited' = credited ]_vars

\* C9: after a 429 with Retry-After N no accrual request is issued until N
\* seconds have passed.
C9_NoRequestBeforeRetryAfter ==
    [][ retryWait > 0 => ~(schedPC' \in {"loop", "getuser"} /\ polled' # polled
                           /\ polled' # {}) ]_vars

\* The intake request in slot r takes its step with the store working.
IntakeStep(r, pc) == ld[r].pc = pc /\ ld'[r] # ld[r] /\ faults' = faults

\* C10: a valid number submitted for the first time is accepted (202) and has
\* one row; submitted again by the same user it is answered 200, the store
\* is unchanged and the number still has exactly one row.
C10_Idempotent ==
    [][ \A r \in LoadSlots :
          LET u == ld[r].UserID
              n == ld[r].Number
          IN  /\ (IntakeStep(r, "add") /\ RowsOfNumber(orders, n) = {}) =>
                    /\ lastAnswer'.code = StatusAccepted
                    /\ Cardinality(RowsOfNumber(orders', n)) = 1
              /\ (IntakeStep(r, "check") /\ <<u, n>> \in accepted) =>
                    /\ lastAnswer' = LoadAnswer(ErrAlreadyHaveOrder)
                    /\ lastAnswer'.code = StatusOK
                    /\ ld'[r].pc = "idle"
                    /\ dbVars' = dbVars
                    /\ Cardinality(RowsOfNumber(orders, n)) = 1 ]_vars

\* C10 witness: the second submission of an accepted number was answered.
C10_Witness ==
    /\ lastAnswer = LoadAnswer(ErrAlreadyHaveOrder)
    /\ \E u \in UserIDs : accepted = {<<u, <<"1", "8">>>>}
    /\ Len(orders) = 1

\* The number of the intake request in slot r has a row owned by another user.
OwnedByOther(r) ==
    \E k \in RowsOfNumber(orders, ld[r].Number) : orders[k].UserID # ld[r].UserID

\* C11: an intake of a number owned by a different user is answered with the
\* conflict outcome (409), creates no order, and leaves the existing order
\* (owner, status, points) and all other stored state unchanged.
C11_ConflictForOtherUser ==
    [][ \A r \in LoadSlots :
          (IntakeStep(r, "check") /\ OwnedByOther(r)) =>
              /\ lastAnswer' = LoadAnswer(ErrAlreadyHaveOrderForOtherUser)
              /\ lastAnswer'.code = StatusConflict
              /\ ld'[r].pc = "idle"
              /\ dbVars' = dbVars ]_vars

\* C11 witness: user 2 was answered 409 for a number that user 1 owns and
\* that the reconciler has already decided.
C11_Witness ==
    /\ lastAnswer = LoadAnswer(ErrAlreadyHaveOrderForOtherUser)
    /\ lastAnswer.code = StatusConflict
    /\ Len(orders) = 1
    /\ orders[1].UserID = 1
    /\ orders[1].Status = "PROCESSED"

\* C12: at most one order row exists per number, and under every step (of
\* an intake, a withdrawal or a reconciliation pass) an existing row keeps
\* its number and its owner and no row disappears.
C12_UniqueNumberFixedOwner ==
    [][ /\ Len(orders') >= Len(orders)
        /\ \A k \in 1..Len(orders) :
              /\ orders'[k].Number = orders[k].Number
              /\ orders'[k].UserID = orders[k].UserID
        /\ \A j, k \in 1..Len(orders') :
              orders'[j].Number = orders'[k].Number => j = k ]_vars

\* C12 witness: a withdrawal under the number of an order taken in by intake
\* and updated by the reconciler was rejected by the unique index.
C12_Witness ==
    /\ lastAnswer = WithdrawAnswer(ErrDuplicateKey, {})
    /\ Len(orders) = 1
    /\ orders[1].Number = <<"1", "8">>
    /\ orders[1].Status = "PROCESSING"
    /\ withdrawals = <<>>

\* The checksum rule stated from the right-hand end: every character is a
\* decimal digit, every second digit counted from the right, starting with
\* the digit next to the last, is doubled (minus 9 above 9), and the sum of
\* all digits is divisible by 10.  p is the position counted from the right.
RECURSIVE LuhnSumFromRight(_, _)
LuhnSumFromRight(number, p) ==
    IF p > Len(number) THEN 0
    ELSE LET d == DigitValue(number[Len(number) + 1 - p])
             t == IF p % 2 = 0 THEN (IF 2 * d > 9 THEN 2 * d - 9 ELSE 2 * d) ELSE d
         IN  t + LuhnSumFromRight(number, p + 1)

LuhnReference(number) ==
    /\ \A k \in 1..Len(number) : number[k] \in Digits
    /\ LuhnSumFromRight(number, 1) % 10 = 0

\* A step of intake request r at position pc, whatever it touches.
LoadStep(r, pc) == ld[r].pc = pc /\ ld'[r] # ld[r]

\* C13: an intake whose number fails the checksum test is answered 422 with
\* the invalid-format error without any store access (no store operation
\* that could fail is run, no row of any table changes), and an accepted
\* intake appends exactly one order NEW with 0 points owned by the caller.
C13_InvalidRejectedValidCreatesNew ==
    [][ \A r \in LoadSlots :
          /\ (LoadStep(r, "check") /\ ~LuhnReference(ld[r].Number)) =>
                /\ lastAnswer' = LoadAnswer(ErrInvalidOrderNumber)
                /\ lastAnswer'.code = StatusUnprocessableEntity
                /\ ld'[r].pc = "idle"
                /\ faults' = faults
                /\ dbVars' = dbVars
          /\ (LoadStep(r, "check") /\ LuhnReference(ld[r].Number)) =>
                (ld'[r].pc = "idle" => lastAnswer'.err # ErrInvalidOrderNumber)
          /\ (LoadStep(r, "add") /\ lastAnswer' = LoadAnswer(ErrNil)) =>
                /\ lastAnswer'.code = StatusAccepted
                /\ RowsOfNumber(orders, ld[r].Number) = {}
                /\ Len(orders') = Len(orders) + 1
                /\ SubSeq(orders', 1, Len(orders)) = orders
                /\ orders'[Len(orders')].Number = ld[r].Number
                /\ orders'[Len(orders')].UserID = ld[r].UserID
                /\ orders'[Len(orders')].Status = "NEW"
                /\ orders'[Len(orders')].Points = 0
                /\ users' = users /\ withdrawals' = withdrawals ]_vars

\* C13 witness: one number was accepted and stored as NEW, and a number
\* failing the checksum test was then answered 422.
C13_Witness ==
    /\ lastAnswer = LoadAnswer(ErrInvalidOrderNumber)
    /\ lastAnswer.code = StatusUnprocessableEntity
    /\ Len(orders) = 1
    /\ orders[1].Status = "NEW"
    /\ accepted = {<<2, <<"1", "8">>>>}

(***************************************************************************)
(* The checksum test over every short string: intake of any body over a    *)
(* small alphabet into the empty store.                                    *)
(***************************************************************************)
MaxLen == 3

LuhnAlphabet == {"0", "1", "5", "8", "9", "x", "-"}

\* The numbers of TestLunh.
LuhnExamples ==
    { <<"3", "1", "8", "2", "6", "4", "9">>,
      <<"1", "1", "1", "1", "1", "1", "1", "1">> }

LuhnStrings == LuhnExamples \cup UNION { [1..n -> LuhnAlphabet] : n \in 0..MaxLen }

NextLuhn ==
    \/ /\ NoRequest /\ orders = <<>>
       /\ \E r \in LoadSlots : LoadOrderHandler_Authenticate(r, {1}, LuhnStrings)
    \/ \E r \in LoadSlots : LoadOrderLogic_Check(r)
    \/ \E r \in LoadSlots : LoadOrderLogic_AddOrder(r)

SpecLuhn == Init /\ [][NextLuhn]_vars

\* C14: for every body LoadOrderLogic is about to test, IsValidLuhn is true
\* exactly when every character is a decimal digit and the sum of the
\* digits, every second one from the right (starting next to the last)
\* doubled minus 9 above 9, is divisible by 10; a non-digit character makes
\* it false; "3182649" is valid and "11111111" is not.
C14_LuhnMatchesReference ==
    /\ \A r \in LoadSlots :
          ld[r].pc = "check" =>
            /\ IsValidLuhn(ld[r].Number) <=> LuhnReference(ld[r].Number)
            /\ (\E k \in 1..Len(ld[r].Number) : ld[r].Number[k] \notin Digits)
                  => ~IsValidLuhn(ld[r].Number)
    /\ IsValidLuhn(<<"3", "1", "8", "2", "6", "4", "9">>)
    /\ ~IsValidLuhn(<<"1", "1", "1", "1", "1", "1", "1", "1">>)
    /\ \A k \in 1..Len(orders) : LuhnReference(orders[k].Number)

\* C14 witness: a body with an odd count of digits passed the test and was
\* stored without a store failure.
C14_Witness ==
    /\ Len(orders) = 1
    /\ orders[1].Number = <<"0", "1", "8">>
    /\ faults = 0

(***************************************************************************)
(* Queries: GetBalanceHandler -> GetBalanceLogic and GetOrderHandler ->    *)
(* GetOrderLogic.                                                          *)
(***************************************************************************)
\* Where("user_id = ? AND points > 0", userID).Order("created_at")
GetAddWithdrawalsByUserID(tbl, userID) ==
    SelectSeq(tbl, LAMBDA wdr : wdr.UserID = userID /\ wdr.Points > 0)

\* Defect variant: the rows of every user.
GetOrdersByUserID_All(tbl, userID) == SelectSeq(tbl, LAMBDA o : o.UserID = o.UserID)

\* Where("user_id = ?", userID).Order("created_at"): rows are kept in the
\* order of their creation.
GetOrdersByUserID(tbl, userID) == SelectSeq(tbl, LAMBDA o : o.UserID = userID)

\* for _, withdrawal := range withdrawals { withdrawn += withdrawal.Points }
RECURSIVE SumWithdrawn(_)
SumWithdrawn(rows) ==
    IF rows = <<>> THEN 0 ELSE Head(rows).Points + SumWithdrawn(Tail(rows))

\* models.OrderResponse of a row (UploadedAt is left out).
OrderResponse(o) == [Number |-> o.Number, Status |-> o.Status, Accrual |-> o.Points]

\* GetBalanceHandler's answer: 200 with the body, or 500.
BalanceAnswer(err, current, withdrawn) ==
    [handler |-> "GetBalanceHandler", err |-> err,
     code |-> IF err = ErrNil THEN StatusOK ELSE StatusInternalServerError,
     wrote |-> {}, current |-> current, withdrawn |-> withdrawn]

\* GetOrderHandler's answer: 500, 204 for an empty list, or 200 with the list.
OrdersAnswer(err, list) ==
    [handler |-> "GetOrderHandler", err |-> err,
     code |-> IF err # ErrNil THEN StatusInternalServerError
              ELSE IF Len(list) = 0 THEN StatusNoContent
              ELSE StatusOK,
     wrote |-> {}, list |-> list]

\* A query arrives: AuthenticateUser reads the session's user row.
\* us: the users whose clients send the query.
GetBalanceHandler_Authenticate(us) ==
    /\ Alive
    /\ ~InFlight(qr)
    /\ \E u \in us :
         qr' = [pc |-> "balance", UserID |-> u, Balance |-> users[u].Balance]
    /\ UNCHANGED <<dbVars, ld, wd, schedVars, cancelled, faults, credited, accepted,
                   termCredits, lastAnswer>>

\* GetBalanceLogic: the withdrawal rows are read and summed; current is the
\* balance of the row AuthenticateUser read.
GetBalanceLogic ==
    /\ Alive
    /\ qr.pc = "balance"
    /\ \E f \in FaultChoices :
         /\ Fault(f)
         /\ lastAnswer' =
               IF f THEN BalanceAnswer(ErrStore, 0, 0)
               ELSE BalanceAnswer(ErrNil, qr.Balance,
                        SumWithdrawn(GetAddWithdrawalsByUserID(withdrawals, qr.UserID)))
    /\ qr' = NoQuery
    /\ UNCHANGED <<dbVars, ld, wd, schedVars, cancelled, credited, accepted, termCredits>>

GetOrderHandler_Authenticate(us) ==
    /\ Alive
    /\ ~InFlight(qr)
    /\ \E u \in us :
         qr' = [pc |-> "orders", UserID |-> u, Balance |-> users[u].Balance]
    /\ UNCHANGED <<dbVars, ld, wd, schedVars, cancelled, faults, credited, accepted,
                   termCredits, lastAnswer>>

\* GetOrderLogic: the user's rows are read and converted one by one.
GetOrderLogic ==
    /\ Alive
    /\ qr.pc = "orders"
    /\ \E f \in FaultChoices :
         LET rows == GetOrdersByUserID(orders, qr.UserID)
         IN  /\ Fault(f)
             /\ lastAnswer' =
                   IF f THEN OrdersAnswer(ErrStore, <<>>)
                   ELSE OrdersAnswer(ErrNil,
                            [k \in 1..Len(rows) |-> OrderResponse(rows[k])])
    /\ qr' = NoQuery
    /\ UNCHANGED <<dbVars, ld, wd, schedVars, cancelled, credited, accepted, termCredits>>

(***************************************************************************)
(* Withdrawal requests with any sum the JSON body can carry (Sum is a      *)
(* float64 that no handler inspects): negative, zero and positive.         *)
(***************************************************************************)
AnySums == {0 - 1, 0, 1}

NextSums ==
    \/ NoRequest /\ \E w \in WithdrawSlots : WithdrawHandler_Authenticate(w, {1}, AnySums)
    \/ \E w \in WithdrawSlots : WithdrawalTransaction_Read(w)
    \/ \E w \in WithdrawSlots : WithdrawalTransaction_Write(w)
    \/ NoRequest /\ GetBalanceHandler_Authenticate({1})
    \/ GetBalanceLogic

SpecSums == Init /\ [][NextSums]_vars

\* C15: every withdrawal record has a strictly positive point amount (a
\* request with sum zero or negative creates no record).
C15_PositiveWithdrawals ==
    \A k \in 1..Len(withdrawals) : withdrawals[k].Points > 0

\* C16: whatever the accrual service answers, the scheduler goroutine keeps
\* running: it is waiting for a tick or inside a pass, never ended by a panic.
C16_NoFatalResponse ==
    schedPC \in {"wait", "loop", "getuser", "updateuser"}

(***************************************************************************)
(* Shutdown: main's context is cancelled by SIGINT/SIGTERM, and the        *)
(* scheduler's select observes ctx.Done().  (main's own return, which ends *)
(* the process, is not a step: the behaviours show the goroutines up to    *)
(* that moment.)                                                           *)
(***************************************************************************)
\* signal.NotifyContext: the signal arrives and ctx is cancelled.
Cancel ==
    /\ Alive
    /\ ~cancelled
    /\ cancelled' = TRUE
    /\ UNCHANGED <<dbVars, ld, wd, qr, schedVars, faults, credited, accepted,
                   termCredits, lastAnswer>>

\* case <-ctx.Done(): return, and the deferred ticker.Stop().  The select is
\* only reached between passes; when a tick is ready too, either case may run.
MakeGorutineToCheckOrdersByTimer_Done ==
    /\ schedPC = "wait"
    /\ cancelled
    /\ schedPC' = "returned"
    /\ ticker' = TickerStopped
    /\ UNCHANGED <<dbVars, ld, wd, qr, cancelled, pass, i, resp, user, polled, last429,
                   retryWait, faults, credited, accepted, termCredits, lastAnswer>>

NextCancel ==
    \/ NoRequest /\ \E r \in LoadSlots : LoadOrderHandler_Authenticate(r, {1}, OneCard)
    \/ \E r \in LoadSlots : LoadOrderLogic_Check(r)
    \/ \E r \in LoadSlots : LoadOrderLogic_AddOrder(r)
    \/ Elapse
    \/ MakeGorutineToCheckOrdersByTimer_Tick
    \/ processOrders_Step(Responses)
    \/ fetchOrderInfo_GetUser
    \/ fetchOrderInfo_UpdateUser
    \/ processOrders_Return
    \/ Cancel
    \/ MakeGorutineToCheckOrdersByTimer_Done

SpecCancel == Init /\ [][NextCancel]_vars

\* C17 (its last part): the scheduler goroutine has ended only if the
\* shutdown signal was given.
C17_EndsOnlyOnCancel ==
    schedPC \notin {"wait", "loop", "getuser", "updateuser"} => cancelled

\* A step that answers the query in flight.
QueryStep(pc) == qr.pc = pc /\ qr' # qr

\* C18: an answered balance query reports the user's stored balance as
\* current and the sum of the points of all of the user's withdrawal records
\* as withdrawn, and changes no table.
C18_BalanceQuery ==
    [][ (QueryStep("balance") /\ lastAnswer'.err = ErrNil) =>
          /\ lastAnswer'.handler = "GetBalanceHandler"
          /\ lastAnswer'.code = StatusOK
          /\ lastAnswer'.current = users[qr.UserID].Balance
          /\ lastAnswer'.withdrawn = SumPoints(withdrawals, qr.UserID)
          /\ dbVars' = dbVars ]_vars

(***************************************************************************)
(* Order listings beside intake by both users and reconciliation, with no  *)
(* two operations overlapping.                                             *)
(***************************************************************************)
\* An accrual service that answers every request with a calculation state.
ListedResponses ==
    {r \in Responses : r.code = StatusOK /\ r.json /\ r.Status \in {"PROCESSING", "PROCESSED"}}

\* No request is being served and the scheduler is between two passes.
BetweenPasses == NoRequest /\ schedPC = "wait"

NextQuery ==
    \/ /\ BetweenPasses
       /\ \E r \in LoadSlots : LoadOrderHandler_Authenticate(r, UserIDs, LoadNumbers)
    \/ \E r \in LoadSlots : LoadOrderLogic_Check(r)
    \/ \E r \in LoadSlots : LoadOrderLogic_AddOrder(r)
    \/ BetweenPasses /\ GetOrderHandler_Authenticate(UserIDs)
    \/ GetOrderLogic
    \/ NoRequest /\ Elapse
    \/ NoRequest /\ MakeGorutineToCheckOrdersByTimer_Tick
    \/ NoRequest /\ processOrders_Step(ListedResponses)
    \/ NoRequest /\ fetchOrderInfo_GetUser
    \/ NoRequest /\ fetchOrderInfo_UpdateUser
    \/ NoRequest /\ processOrders_Return

SpecQuery == Init /\ [][NextQuery]_vars

\* The rows of user u, and the place of row k among them by creation.
RowsOf(u) == {k \in 1..Len(orders) : orders[k].UserID = u}
RankAmong(u, k) == Cardinality({m \in RowsOf(u) : m <= k})

\* C19: an answered order listing holds exactly the caller's orders, in the
\* order of their creation, each with its stored status and points, and is
\* answered 204 when the caller has none; the listing changes no table.  A
\* row changes only by the reconciler's update of the order it polls, and
\* intake creates a row as NEW with 0 points, so an order that was not yet
\* reconciled is listed as NEW with accrual 0.
C19_OrderListing ==
    [][ /\ (QueryStep("orders") /\ lastAnswer'.err = ErrNil) =>
            LET list == lastAnswer'.list
            IN  /\ lastAnswer'.handler = "GetOrderHandler"
                /\ Len(list) = Cardinality(RowsOf(qr.UserID))
                /\ \A k \in RowsOf(qr.UserID) :
                      /\ list[RankAmong(qr.UserID, k)].Number = orders[k].Number
                      /\ list[RankAmong(qr.UserID, k)].Status = orders[k].Status
                      /\ list[RankAmong(qr.UserID, k)].Accrual = orders[k].Points
                /\ lastAnswer'.code =
                      IF RowsOf(qr.UserID) = {} THEN StatusNoContent ELSE StatusOK
                /\ dbVars' = dbVars
        /\ \A k \in 1..Len(orders) :
              orders'[k] # orders[k] =>
                 schedPC = "loop" /\ i <= Len(pass) /\ pass[i].ID = orders[k].ID
        /\ Len(orders') > Len(orders) =>
              /\ orders'[Len(orders')].Status = "NEW"
              /\ orders'[Len(orders')].Points = 0 ]_vars

\* C19 witness: a listing of two orders of one user, the older one reconciled
\* and the newer one not yet.
C19_Witness ==
    /\ lastAnswer.handler = "GetOrderHandler"
    /\ lastAnswer.code = StatusOK
    /\ Len(lastAnswer.list) = 2
    /\ lastAnswer.list[1] = [Number |-> <<"2", "6">>, Status |-> "PROCESSED", Accrual |-> 1]
    /\ lastAnswer.list[2] = [Number |-> <<"1", "8">>, Status |-> "NEW", Accrual |-> 0]

\* C19 witness of the empty case: user 2, who has no order, was answered 204
\* while user 1 has one.
C19_WitnessEmpty ==
    /\ lastAnswer = OrdersAnswer(ErrNil, <<>>)
    /\ lastAnswer.code = StatusNoContent
    /\ Len(orders) = 1
    /\ orders[1].UserID = 1

\* C20: outside fetchOrderInfo's own window between the two writes, every
\* order stored as PROCESSED with positive points has had its owner credited
\* (a failed read or save of the owner restores the order).
C20_CreditIsAtomic ==
    ~Crediting =>
        \A k \in 1..Len(orders) :
            (orders[k].Status = "PROCESSED" /\ orders[k].Points > 0)
                => termCredits[orders[k].ID] >= 1

\* The answers fetchOrderInfo decodes into a decision: 200 with a JSON body.
DecisionResponses == {r \in Responses : r.code = StatusOK /\ r.json}

\* C21: a poll that changes a stored order has written one decision: the polled
\* order's status and points are exactly those of one 200/JSON answer, no
\* other order and no user changes in that step, and the credit follows if
\* and only if that accrual is positive.  The credit (absent a store failure)
\* raises the owner's balance by exactly the accrual and changes nothing
\* else; no other step of the reconciler changes a balance.
C21_DecisionWrittenVerbatim ==
    [][ /\ (schedPC = "loop" /\ orders' # orders /\ Len(orders') = Len(orders)) =>
            \E r \in DecisionResponses :
              /\ i <= Len(pass)
              /\ orders'[pass[i].ID].Status = r.Status
              /\ orders'[pass[i].ID].Points = r.Accrual
              /\ orders'[pass[i].ID].Number = orders[pass[i].ID].Number
              /\ orders'[pass[i].ID].UserID = orders[pass[i].ID].UserID
              /\ Len(orders') = Len(orders)
              /\ \A k \in 1..Len(orders) : k # pass[i].ID => orders'[k] = orders[k]
              /\ users' = users
              /\ withdrawals' = withdrawals
              /\ (r.Accrual > 0) <=> (schedPC' = "getuser")
              /\ (r.Accrual > 0) => resp' = [Status |-> r.Status, Accrual |-> r.Accrual]
        /\ (schedPC = "getuser" /\ schedPC' # schedPC) => dbVars' = dbVars
        /\ (schedPC = "updateuser" /\ schedPC' # schedPC /\ faults' = faults) =>
              /\ resp.Accrual > 0
              /\ users'[pass[i].UserID].Balance
                    = users[pass[i].UserID].Balance + resp.Accrual
              /\ \A u \in UserIDs : u # pass[i].UserID => users'[u] = users[u]
              /\ orders' = orders
              /\ withdrawals' = withdrawals
        /\ users' # users => schedPC = "updateuser" ]_vars

\* C21 witness: a decision PROCESSING with accrual 1 was written verbatim and
\* the owner credited, and a later decision with no accrual set the points
\* of the second order to 0 without a credit.
C21_Witness ==
    /\ Len(orders) = 2
    /\ orders[1].Status = "PROCESSING" /\ orders[1].Points = 1
    /\ orders[2].Status = "INVALID" /\ orders[2].Points = 0
    /\ users[1].Balance = 1
    /\ faults = 0

\* The scheduler polls pass[i]: fetchOrderInfo's request and what follows it
\* up to the save of the order.
PollStep ==
    /\ schedPC = "loop"
    /\ i <= Len(pass)
    /\ i' # i \/ schedPC' # schedPC

\* The answer recorded by the poll is transient: no response (network
\* failure), 204, 500, or 200 with a body that is not JSON.
Transient(l) ==
    \/ l.code \in {0, StatusNoContent, StatusInternalServerError}
    \/ l.code = StatusOK /\ ~l.json

\* C22: a poll with a transient outcome changes no order and no balance and
\* makes no store call; the pass moves on to its next order, and as the
\* orders of a pass are distinct rows the order is not polled again in this
\* pass; the next pass selects every order whose status is still waiting.
C22_TransientLeavesOrder ==
    [][ /\ (PollStep /\ Transient(last429')) =>
              /\ dbVars' = dbVars
              /\ faults' = faults
              /\ schedPC' = "loop"
              /\ i' = i + 1
              /\ pass' = pass
              /\ \A j, k \in 1..Len(pass) : pass[j].ID = pass[k].ID => j = k
        /\ (schedPC = "wait" /\ schedPC' = "loop") =>
              \A k \in 1..Len(orders) :
                  orders[k].Status \in {"NEW", "REGISTERED", "PROCESSING"}
                      => \E j \in 1..Len(pass') : pass'[j].ID = orders[k].ID ]_vars

\* C22 witness: the first of two waiting orders was answered 204, is stored
\* unchanged, and the pass is at its second order.
C22_Witness ==
    /\ schedPC = "loop"
    /\ last429.code = StatusNoContent
    /\ Len(pass) = 2 /\ i = 2
    /\ orders[1].Status = "NEW" /\ orders[2].Status = "NEW"
    /\ polled = {1}

\* The scheduler goroutine is inside processOrders.
InPass == schedPC \in {"loop", "getuser", "updateuser"}

\* A step of the scheduler goroutine inside a pass.
PassStep == InPass /\ (schedPC' # schedPC \/ i' # i)

\* C23: inside a pass, a step that is not a poll answered 429 (in particular
\* a poll with an accrual error, a failed save of the order, a failed lookup
\* or save of the user) keeps the pass and its list: the pass goes on with
\* the same or the next order, and it ends only after the last order, with
\* every order of the list polled and the ticker reset to the default.
C23_FailureDoesNotAbort ==
    [][ (PassStep /\ ~(PollStep /\ last429'.code = StatusTooManyRequests)) =>
            IF schedPC = "loop" /\ i > Len(pass)
            THEN /\ schedPC' = "wait"
                 /\ ticker' = defTimeToReturn
                 /\ polled = {pass[j].ID : j \in 1..Len(pass)}
            ELSE /\ InPass'
                 /\ pass' = pass
                 /\ i' \in {i, i + 1}
                 /\ schedPC' = "loop" => i' = i + 1
                 /\ PollStep => polled' = polled \cup {pass[i].ID} ]_vars

\* C23 witness: the credit for the first order failed in the store (the
\* order is PROCESSED with 1 point, the balance is 0), and the second order
\* of the pass was polled and updated after it.
C23_Witness ==
    /\ schedPC = "loop"
    /\ Len(pass) = 2 /\ i = 3
    /\ polled = {1, 2}
    /\ faults = 1
    /\ orders[1].Status = "PROCESSED" /\ orders[1].Points = 1
    /\ users[1].Balance = 0
    /\ orders[2].Status = "PROCESSING"

\* The tick's GetWaitingOrders failed: a store failure while the scheduler
\* waits with the tick due and no request handler takes the step.
WaitingOrdersFailed ==
    /\ schedPC = "wait" /\ ticker = 0
    /\ faults' # faults
    /\ ld' = ld /\ wd' = wd /\ qr' = qr

C25_OnePassAtATime ==
    [][ /\ InPass => ticker = TickerStopped
        /\ (InPass' /\ ~InPass) =>
              /\ schedPC = "wait" /\ ticker = 0
              /\ ticker' = TickerStopped
              /\ i' = 1
        /\ (InPass /\ i' < i) => ~InPass'
        /\ (InPass /\ pass' # pass) => ~InPass'
        /\ (ticker = TickerStopped /\ ticker' # ticker) =>
              /\ InPass /\ schedPC' = "wait"
              /\ ticker' > 0
              /\ pass' = <<>> ]_vars

\* C25 witness: the pass is at the credit of its second order with the
\* ticker still stopped.
C25_Witness ==
    /\ schedPC = "updateuser"
    /\ Len(pass) = 2 /\ i = 2
    /\ ticker = TickerStopped
    /\ polled = {1, 2}

\* The rows whose stored status is NEW, REGISTERED or PROCESSING.
WaitingRows == {k \in 1..Len(orders) : orders[k].Status \in {"NEW", "REGISTERED", "PROCESSING"}}

\* C26: the list a pass starts with holds exactly the orders whose stored
\* status at that moment is NEW, REGISTERED or PROCESSING, each once; and an
\* accrual request is only ever issued for an order of that list.
C26_PassSelectsWaiting ==
    [][ /\ (InPass' /\ ~InPass) =>
              /\ {pass'[j].ID : j \in 1..Len(pass')} = WaitingRows
              /\ Len(pass') = Cardinality(WaitingRows)
              /\ \A j \in 1..Len(pass') :
                    /\ pass'[j].Number = orders[pass'[j].ID].Number
                    /\ pass'[j].UserID = orders[pass'[j].ID].UserID
        /\ PollStep =>
              polled' \subseteq polled \cup {pass[i].ID}
        /\ polled' \subseteq polled \cup {pass[j].ID : j \in 1..Len(pass)} ]_vars

\* C26 witness: a pass has started over the one NEW order, leaving out the
\* order that an earlier pass had brought to PROCESSED.
C26_Witness ==
    /\ schedPC = "loop" /\ i = 1
    /\ Len(orders) = 2
    /\ orders[1].Status = "PROCESSED"
    /\ orders[2].Status = "NEW"
    /\ Len(pass) = 1 /\ pass[1].ID = 2

\* The poll was answered 429 with a Retry-After that parses to a number other
\* than the default interval, which ends the pass.
AbortedByRateLimit ==
    /\ PollStep
    /\ last429'.code = StatusTooManyRequests
    /\ ~Atoi(last429'.retryAfter).err
    /\ Atoi(last429'.retryAfter).val # defTimeToReturn

\* C27: a pass aborted by a rate limit schedules the next pass after the
\* requested wait, and a pass that ends in any other way schedules the next
\* pass after the default interval (the override is not remembered).
C27_RetryAfterOnce ==
    [][ /\ AbortedByRateLimit =>
              /\ schedPC' = "wait"
              /\ ticker' = Atoi(last429'.retryAfter).val
        /\ (InPass /\ schedPC' = "wait" /\ ~AbortedByRateLimit) =>
              ticker' = defTimeToReturn ]_vars

\* The withdrawal in slot w reads the user row and checks the funds, the
\* store working.
FundsCheckStep(w) == wd[w].pc = "tx" /\ wd'[w] # wd[w] /\ faults' = faults

\* C28: the funds check decides on the balance stored when the transaction
\* reads the user row, whatever balance the request was authenticated with:
\* the withdrawal is rejected (402) exactly when that balance is below the
\* sum, and otherwise goes on with that balance less the sum.
C28_FundsCheckOnFreshBalance ==
    [][ \A w \in WithdrawSlots :
          FundsCheckStep(w) =>
            IF users[wd[w].UserID].Balance < wd[w].Sum
            THEN /\ wd'[w] = NoWithdraw
                 /\ lastAnswer' = WithdrawAnswer(ErrInsufficientFunds, {})
                 /\ lastAnswer'.code = StatusPaymentRequired
                 /\ dbVars' = dbVars
            ELSE /\ wd'[w].pc = "write"
                 /\ wd'[w].Balance = users[wd[w].UserID].Balance - wd[w].Sum ]_vars

\* C28 witness: a request authenticated with balance 0 for a sum of 1 passed
\* the funds check, because a credit arrived before the transaction began.
C28_Witness ==
    \E w \in WithdrawSlots :
        /\ wd[w].pc = "write"
        /\ wd[w].Auth = 0
        /\ wd[w].Sum = 1
        /\ wd[w].Balance = 0

(***************************************************************************)
(* One crediting pass: user 1's orders are reconciled by passes of which   *)
(* none starts once an accrual is stored, so that all the accruals of a    *)
(* behaviour are granted within one pass.                                  *)
(***************************************************************************)
NoAccrualYet == \A k \in 1..Len(orders) : orders[k].Points = 0

NextBatch ==
    \/ NoRequest /\ \E r \in LoadSlots : LoadOrderHandler_Authenticate(r, {1}, LoadNumbers)
    \/ \E r \in LoadSlots : LoadOrderLogic_Check(r)
    \/ \E r \in LoadSlots : LoadOrderLogic_AddOrder(r)
    \/ Elapse
    \/ NoAccrualYet /\ MakeGorutineToCheckOrdersByTimer_Tick
    \/ processOrders_Step(Responses)
    \/ fetchOrderInfo_GetUser
    \/ fetchOrderInfo_UpdateUser
    \/ processOrders_Return

SpecBatch == Init /\ [][NextBatch]_vars

\* The points stored on the orders of user u.
RECURSIVE OrderPoints(_, _)
OrderPoints(tbl, u) ==
    IF tbl = <<>> THEN 0
    ELSE (IF Head(tbl).UserID = u THEN Head(tbl).Points ELSE 0) + OrderPoints(Tail(tbl), u)

\* C29: when all accruals are granted within one pass and no store call has
\* failed, then outside the window between the save of an order and the
\* save of its owner each user's balance is the sum of the accruals stored on
\* that user's orders: every credit of the pass was added to the ones before.
C29_PassCreditsAddUp ==
    (~Crediting /\ faults = 0) =>
        \A u \in UserIDs : users[u].Balance = OrderPoints(orders, u)

\* C29 witness: both orders of user 1 were granted 1 point in the one pass,
\* and the balance is 2.
C29_Witness ==
    /\ schedPC = "wait"
    /\ faults = 0
    /\ Len(orders) = 2
    /\ orders[1].Points = 1 /\ orders[2].Points = 1
    /\ users[1].Balance = 2

(***************************************************************************)
(* Two withdrawals of user 1 in flight together, between reconciliation    *)
(* passes that run with no request in flight and get calculation states    *)
(* from the accrual service.                                               *)
(***************************************************************************)
\* No intake and no query is being served and the scheduler waits for a tick.
OnlyWithdrawals ==
    /\ schedPC = "wait"
    /\ \A r \in LoadSlots : ~InFlight(ld[r])
    /\ ~InFlight(qr)

NextRace ==
    \/ /\ NoRequest /\ ~Crediting
       /\ \E r \in LoadSlots : LoadOrderHandler_Authenticate(r, {1}, OneCard)
    \/ \E r \in LoadSlots : LoadOrderLogic_Check(r)
    \/ \E r \in LoadSlots : LoadOrderLogic_AddOrder(r)
    \/ OnlyWithdrawals /\ \E w \in WithdrawSlots : WithdrawHandler_Authenticate(w, {1}, Sums)
    \/ \E w \in WithdrawSlots : WithdrawalTransaction_Read(w)
    \/ \E w \in WithdrawSlots : WithdrawalTransaction_Write(w)
    \/ NoRequest /\ Elapse
    \/ NoRequest /\ MakeGorutineToCheckOrdersByTimer_Tick
    \/ NoRequest /\ processOrders_Step(ListedResponses)
    \/ NoRequest /\ fetchOrderInfo_GetUser
    \/ NoRequest /\ fetchOrderInfo_UpdateUser
    \/ NoRequest /\ processOrders_Return

SpecRace == Init /\ [][NextRace]_vars

\* The withdrawal in slot w commits its three writes and is answered 200.
AcceptedStep(w) ==
    /\ wd[w].pc = "write"
    /\ wd'[w] = NoWithdraw
    /\ lastAnswer'.err = ErrNil
    /\ "user" \in lastAnswer'.wrote

\* C30: with two withdrawals of one user in flight together, a withdrawal
\* is accepted only while the stored balance covers its sum, and its commit
\* lowers the stored balance by exactly its sum (so two accepted withdrawals
\* lower it by both sums).
C30_NoDoubleSpend ==
    [][ \A w \in WithdrawSlots :
          AcceptedStep(w) =>
            /\ users[wd[w].UserID].Balance >= wd[w].Sum
            /\ users'[wd[w].UserID].Balance = users[wd[w].UserID].Balance - wd[w].Sum ]_vars


\* C31: what reconciliation has credited to a user never exceeds the points
\* stored on that user's orders, outside the window between the save of an
\* order and the save of its owner: an order is credited at most the points
\* it holds, also when calculation states carry a positive accrual.
C31_CreditWithinPoints ==
    ~Crediting => \A u \in UserIDs : credited[u] <= OrderPoints(orders, u)

\* C32: with withdrawals of non-negative sums interleaved with reconciliation
\* credits, every user's stored balance is at least zero in every reachable
\* state.
C32_BalanceNeverNegative == \A u \in UserIDs : users[u].Balance >= 0

\* C32 witness: a withdrawal of the whole balance has passed the funds check
\* and is about to save a balance of zero, while reconciliation, which read
\* the balance before it, is about to save a credit to the same user.
C32_Witness ==
    /\ \E w \in WithdrawSlots :
          /\ wd[w].pc = "write"
          /\ wd[w].UserID = 1
          /\ wd[w].Balance = 0
    /\ schedPC = "updateuser"
    /\ pass[i].UserID = 1
    /\ users[1].Balance > 0

\* The scheduler polls a 429 whose Retry-After header is the integer n.
RateLimitedFor(n) ==
    /\ PollStep
    /\ last429'.code = StatusTooManyRequests
    /\ Atoi(last429'.retryAfter) = [err |-> FALSE, val |-> n]

\* C33: a 429 with an integer Retry-After of n seconds, n >= 1, ends the pass
\* (no order that follows in the pass is polled), also when n equals the
\* default interval; when orders were left, the ticker is armed with n seconds.
C33_AbortForEveryWait ==
    [][ \A n \in 1..4 :
          RateLimitedFor(n) =>
            /\ ~(schedPC' = "loop" /\ i' <= Len(pass'))
            /\ i < Len(pass) => (schedPC' = "wait" /\ ticker' = n) ]_vars

\* The answer recorded by the poll is a 429 whose Retry-After header is
\* missing or is not an integer.
UnusableRetryAfter(l) ==
    /\ l.code = StatusTooManyRequests
    /\ l.retryAfter \in { <<>>, <<"x">> }

\* C34: a poll answered 429 with a missing or non-integer Retry-After changes
\* no order and no balance and makes no store call, the pass moves on to its
\* next order with the ticker untouched, and a pass whose last answer was such
\* a 429 ends with the ticker reset to the default interval.
C34_UnusableRetryAfterIsPerOrder ==
    [][ /\ (PollStep /\ UnusableRetryAfter(last429')) =>
              /\ dbVars' = dbVars
              /\ faults' = faults
              /\ credited' = credited
              /\ schedPC' = "loop"
              /\ i' = i + 1
              /\ pass' = pass
              /\ ticker' = ticker
              /\ retryWait' = retryWait
        /\ (UnusableRetryAfter(last429) /\ schedPC = "loop" /\ i > Len(pass)
                /\ schedPC' # "loop") =>
              /\ schedPC' = "wait"
              /\ ticker' = defTimeToReturn ]_vars

\* C34 witness: the first of two waiting orders was answered 429 with a
\* Retry-After that is not a number, both orders are stored unchanged, and
\* the pass is at its second order.
C34_Witness ==
    /\ schedPC = "loop"
    /\ last429.code = StatusTooManyRequests
    /\ last429.retryAfter = <<"x">>
    /\ Len(pass) = 2 /\ i = 2
    /\ polled = {1}
    /\ orders[1].Status = "NEW" /\ orders[2].Status = "NEW"
    /\ users[1].Balance = 0

\* C34 witness: a pass whose only order was answered 429 without a
\* Retry-After header is at its end.
C34_WitnessMissing ==
    /\ schedPC = "loop"
    /\ last429.code = StatusTooManyRequests
    /\ last429.retryAfter = <<>>
    /\ Len(pass) = 1 /\ i = 2

\* C35: a withdrawal is answered as accepted (nil, HTTP 200) only by a return
\* of WithdrawalTransaction that has persisted its order, its withdrawal
\* record and the decremented balance.
C35_SuccessMeansCommitted ==
    [][ \A w \in WithdrawSlots :
          (ReturnStep(w) /\ lastAnswer'.code = StatusOK) => AllPersisted(w) ]_vars

(***************************************************************************)
(* Concurrent intake: requests of both users in flight together, each      *)
(* handler in its own goroutine, with nothing else running.                *)
(***************************************************************************)
NextIntake ==
    \/ \E r \in LoadSlots : LoadOrderHandler_Authenticate(r, UserIDs, OneCard)
    \/ \E r \in LoadSlots : LoadOrderLogic_Check(r)
    \/ \E r \in LoadSlots : LoadOrderLogic_AddOrder(r)

SpecIntake == Init /\ [][NextIntake]_vars

\* C36: when two users submit the same new valid number together, both
\* existence checks running before either insert, the first insert creates
\* the one row and is answered 202, and the second creates no row and is
\* answered with the conflict outcome, 409.
C36_ConcurrentIntakeConflict ==
    [][ \A r \in LoadSlots :
          /\ (IntakeStep(r, "add") /\ OwnedByOther(r)) =>
                /\ orders' = orders
                /\ lastAnswer'.code = StatusConflict
          /\ (IntakeStep(r, "add") /\ RowsOfNumber(orders, ld[r].Number) = {}) =>
                /\ Cardinality(RowsOfNumber(orders', ld[r].Number)) = 1
                /\ lastAnswer'.code = StatusAccepted ]_vars

\* C37: no stored order has the empty string as its number (an intake with
\* an empty body fails the checksum test and is answered 422).
C37_EmptyNumberRejected ==
    \A k \in 1..Len(orders) : orders[k].Number # <<>>

\* C38: in every reachable state the stored status of every order is one of
\* NEW, REGISTERED, PROCESSING, PROCESSED, INVALID, whatever 200 answers the
\* accrual service has given.
C38_StatusInDomain ==
    \A k \in 1..Len(orders) :
        orders[k].Status \in {"NEW", "REGISTERED", "PROCESSING", "PROCESSED", "INVALID"}

(***************************************************************************)
(* Progress of reconciliation.  The scheduler goroutine is always given    *)
(* the processor (weak fairness of each of its steps), the context is      *)
(* never cancelled, and the accrual service keeps its promise: an order    *)
(* that is requested again and again is eventually answered with a final   *)
(* decision (strong fairness of the polls answered PROCESSED or INVALID).  *)
(***************************************************************************)
TerminalResponses ==
    {r \in Responses : r.code = StatusOK /\ r.json /\ r.Status \in {"PROCESSED", "INVALID"}}

NextLive ==
    \/ NoRequest /\ \E r \in LoadSlots : LoadOrderHandler_Authenticate(r, {1}, LoadNumbers)
    \/ \E r \in LoadSlots : LoadOrderLogic_Check(r)
    \/ \E r \in LoadSlots : LoadOrderLogic_AddOrder(r)
    \/ Elapse
    \/ MakeGorutineToCheckOrdersByTimer_Tick
    \/ processOrders_Step(Responses)
    \/ fetchOrderInfo_GetUser
    \/ fetchOrderInfo_UpdateUser
    \/ processOrders_Return

SpecLive ==
    /\ Init
    /\ [][NextLive]_vars
    /\ WF_vars(Elapse)
    /\ WF_vars(MakeGorutineToCheckOrdersByTimer_Tick)
    /\ WF_vars(processOrders_Step(Responses))
    /\ WF_vars(fetchOrderInfo_GetUser)
    /\ WF_vars(fetchOrderInfo_UpdateUser)
    /\ WF_vars(processOrders_Return)
    /\ SF_vars(processOrders_Step(TerminalResponses))

\* C39: every order stored as NEW is eventually stored as PROCESSED or
\* INVALID.
C39_EveryOrderDecided ==
    \A k \in 1..2 :
        (Len(orders) >= k /\ orders[k].Status = "NEW")
            ~> (Len(orders) >= k /\ Terminal(orders[k]))

====
